---- MODULE Spec2Model ----
(***************************************************************************)
(* Codevv backend: the workspace lifecycle manager (services/workspace.py) *)
(* and the terminal multiplexer (services/terminal.py), as request         *)
(* handlers running concurrently on one asyncio loop.                      *)
(*                                                                         *)
(* Every request owns one AsyncSession (core/database.py get_db): what it  *)
(* flushes is visible to its own transaction only, and reaches the shared  *)
(* store when get_db commits after the handler returned; an exception      *)
(* rolls the transaction back.  store is the committed database,           *)
(* frame[p].obj the ORM objects of request p and frame[p].dirty the        *)
(* columns p has flushed.  One action is the code between two awaits that  *)
(* touch shared state (the committed store or the container runtime).      *)
(***************************************************************************)
EXTENDS Integers, Sequences, FiniteSets, TLC

\* ------------------------------------------------------------------ bounds
MaxOps == 3                     \* requests started in one behaviour
MaxWs == 2                      \* workspaces ever created (uuid4 draws)
MaxTime == 2                    \* the clock reads 0..MaxTime
workspace_port_end == 2         \* settings.workspace_port_end
workspace_idle_timeout_min == 1 \* settings.workspace_idle_timeout_min

MaxPolls == 2                   \* iterations of one output poller
MaxInputs == 2                  \* texts received on one connection
MaxEdges == 3                   \* edges of a dependency graph, relations
MaxDepth == 2                   \* max_depth of a traversal request
MaxComponents == 2              \* canvas components of a project

workspace_port_start == 1       \* settings.workspace_port_start

\* the close codes of the terminal bridge
CODE_UNAUTHORIZED == 4001
CODE_NOT_FOUND == 4004

Procs == {"p1", "p2"}           \* concurrent request handlers
WsIds == 1..MaxWs
Users == {"u1", "u2"}
Modes == {"collaborative", "readonly"}
\* a session uuid, as <<its first 8 hex digits, the rest>>
SessionIds == {<<"aaaaaaaa", 1>>, <<"aaaaaaaa", 2>>, <<"bbbbbbbb", 1>>}

\* a session_id path parameter that uuid.UUID() does not parse
Malformed == <<"not-a-uuid", 0>>

\* what tmux capture-pane returns: a screen, empty or not
Texts == {"", "x"}

\* component and knowledge-entity ids, and the names of the components
Ids == {1, 2, 3}
Names == <<"A", "B", "C">>
RelationTypes == {"uses", "calls"}

\* the graphs handed to the dependency algorithms: nodes is a list of
\* distinct ids, edges a list of <<source_id, target_id>>, whose endpoints
\* need not be in nodes
NodeLists ==
    {sq \in UNION {[1..n -> Ids] : n \in 0..Cardinality(Ids)} :
        \A i \in DOMAIN sq, j \in DOMAIN sq : i < j => sq[i] < sq[j]}
EdgeLists == UNION {[1..n -> Ids \X Ids] : n \in 0..MaxEdges}

\* the knowledge_relations rows of a project, each <<source_id, target_id,
\* relation_type>> between two of its entities; every id of Ids is an
\* entity of the project and NoEntity is the id of none
RelationSets ==
    {rel \in SUBSET (Ids \X Ids \X RelationTypes) :
        Cardinality(rel) <= MaxEdges}
NoEntity == 0

\* what build_dependency_graph loads: the canvas components of the
\* project in load order, the component with id i at place i; its
\* knowledge entities, each with a name and an entity_type; and relations
\* between those entities
ComponentNames == {"Api", "API", "Db"}
EntityNames == {"api", "API", "db"}
EntityTypes == {"component", "concept"}
EntityIds == {1, 2}
ComponentLists ==
    UNION {[1..n -> ComponentNames] : n \in 0..MaxComponents}
EntityTables == [EntityIds -> EntityNames \X EntityTypes]
BuildRelationSets ==
    {rel \in SUBSET (EntityIds \X EntityIds \X RelationTypes) :
        Cardinality(rel) <= MaxEdges}

\* what a container-runtime call can do: succeed, raise
\* aiodocker.exceptions.DockerError, or raise anything else (a timeout)
RuntimeOutcomes == {"ok", "DockerError", "Error"}

VARIABLES
    store,       \* committed workspaces table: WsIds -> row or NoRec
    containers,  \* the runtime: WsIds -> container "codevv-ws-<id>" or NoCtr
    sessions,    \* committed terminal_sessions table: set of rows
    clock,       \* datetime.now(timezone.utc) as last read
    nops,        \* requests started so far
    nextWs,      \* next workspace uuid
    pc,          \* per request handler: where it is
    frame,       \* per request handler: its arguments, locals and session
    prevStop     \* the workspace the handler's previous request was a
                 \* stop_workspace of (a row existed), else 0

vars == <<store, containers, sessions, clock, nops, nextWs, pc, frame,
          prevStop>>

\* ------------------------------------------------------------------- rows
NoRec == [status |-> "absent", port |-> 0, container_id |-> "None",
          last_activity |-> 0]
NoCtr == [exists |-> FALSE, port |-> 0, up |-> FALSE]

Workspace(q, now) ==
    [status |-> "starting", port |-> q, container_id |-> "None",
     last_activity |-> now]

\* tmux_name = f"term-{session_id.hex[:8]}"
TmuxName(sid) == sid[1]

TerminalSession(sid, w, u, m) ==
    [id |-> sid, workspace_id |-> w, tmux_session |-> TmuxName(sid),
     owner_id |-> u, mode |-> m]

NoRows == [w \in WsIds |-> NoRec]
NoDirty == [w \in WsIds |-> {}]
NoPort == 0

\* a handler's frame before it has done anything
NewFrame ==
    [op |-> "none",      \* the service function called
     target |-> 0,       \* the workspace id it works on
     caller |-> "none",  \* create_session: user_id
     reqmode |-> "none", \* create_session: mode
     used |-> {},        \* _allocate_port: used, after the records query
     listed |-> "none",  \* _allocate_port: did containers.list succeed
     port |-> NoPort,    \* create_workspace: port
     obj |-> NoRows,     \* the session's identity map: WsIds -> row
     dirty |-> NoDirty,  \* columns flushed and not committed yet
     idle |-> {},        \* cleanup_idle: the rows its query returned
     todo |-> {},        \* cleanup_idle: rows the loop has not reached
     called |-> {},      \* cleanup_idle: rows stop_workspace was called on
     result |-> 0,       \* cleanup_idle: the number returned
     err |-> "none",     \* the exception raised, "none" if none
     nexec |-> 0,        \* commands executed in a container
     newsess |-> {},     \* create_session: the row added to the session
     sid |-> <<"none", 0>>, \* set_mode, bridge: the session id asked for
     setmode |-> {},     \* set_mode: <<session id, mode>> flushed
     accepted |-> FALSE, \* terminal_ws: ws.accept() was called
     closed |-> 0,       \* terminal_ws: the code of ws.close(), 0 if none
     sessrow |-> {},     \* terminal_ws: session, as first read
     sent |-> <<>>,      \* terminal_ws: frames sent to the client
     poller |-> "none",  \* output_poller: none, polling, ended, cancelled
     last_output |-> "", \* output_poller: last_output
     polls |-> <<>>,     \* output_poller: what each iteration captured
                         \* and whether it published
     subscribed |-> FALSE, \* redis_listener: subscribed to the channel
     inbox |-> <<>>,     \* redis_listener: messages not yet forwarded
     ninputs |-> 0,      \* terminal_ws: texts received
     cmds |-> <<>>,      \* send_input: the send-keys commands issued
     applied |-> <<>>,   \* which of the texts received, counted from 1,
                         \* the commands issued were for
     nodes |-> <<>>,     \* dependency graph: nodes
     edges |-> <<>>,     \* dependency graph: edges
     node_id |-> 0,      \* calculate_impact: node_id
     start_id |-> 0,     \* traverse_graph: req.start_id
     cycles |-> <<>>,    \* detect_cycles: the list returned
     impact |-> [direct_dependents |-> 0, transitive_dependents |-> 0,
                 affected_nodes |-> {}], \* calculate_impact: the dict
     max_depth |-> 0,    \* _calc_max_depth: the number returned;
                         \* traverse_graph: req.max_depth
     relations |-> {},   \* traverse_graph: the knowledge_relations rows
     relation_types |-> {}, \* traverse_graph: req.relation_types
     rows |-> {},        \* traverse_graph: rows of the recursive query
     gedges |-> {},      \* traverse_graph: edges returned
     comps |-> <<>>,     \* build_dependency_graph: names of the components
     entities |-> <<>>,  \* build_dependency_graph: the entities loaded
     matched |-> {},     \* build_dependency_graph: entity_name_to_comp
     built |-> {}]       \* build_dependency_graph: the edges returned

\* ----------------------------------------------------------- the session
\* attribute assignment followed by flush: the column is written when the
\* value differs from the one the object holds
Assign(o, d, f, v) ==
    IF o[f] = v THEN <<o, d>> ELSE <<[o EXCEPT ![f] = v], d \cup {f}>>

\* session.commit(): inserted rows and flushed columns reach the store
CommitRows(db, o, d) ==
    [w \in WsIds |->
        IF "insert" \in d[w] THEN o[w]
        ELSE IF db[w] = NoRec THEN db[w]
        ELSE [status |-> IF "status" \in d[w] THEN o[w].status
                         ELSE db[w].status,
              port |-> db[w].port,
              container_id |-> IF "container_id" \in d[w]
                               THEN o[w].container_id
                               ELSE db[w].container_id,
              last_activity |-> IF "last_activity" \in d[w]
                                THEN o[w].last_activity
                                ELSE db[w].last_activity]]

\* ------------------------------------------------------------ the runtime
\* containers.list(all=True): the PublicPort entries, which the runtime
\* reports for containers that are up
PublishedPorts(cs) ==
    {cs[w].port : w \in {x \in WsIds : cs[x].exists /\ cs[x].up}}

\* a call on a container that does not exist raises DockerError (404)
OnContainer(cs, w, r) ==
    IF r = "ok" /\ ~cs[w].exists THEN "DockerError" ELSE r

\* container.start(): the host port must not be bound by another container
StartOutcome(cs, w, r) ==
    IF r = "ok" /\ cs[w].port \in PublishedPorts([cs EXCEPT ![w] = NoCtr])
    THEN "DockerError" ELSE r

\* container.exec(): the container must be up
ExecOutcome(cs, w, r) ==
    IF r = "ok" /\ ~(cs[w].exists /\ cs[w].up) THEN "DockerError" ELSE r

\* ------------------------------------------------------------ bookkeeping
\* datetime.now(timezone.utc): no earlier than the last reading
Now(t) == t \in clock..MaxTime /\ clock' = t

Put(p, f) == frame' = [frame EXCEPT ![p] = f]
Goto(p, l) == pc' = [pc EXCEPT ![p] = l]

\* a request reaches the handler
Begin(p) ==
    /\ pc[p] = "idle"
    /\ nops < MaxOps
    /\ nops' = nops + 1

\* the exception reaches get_db: session.rollback(), then the error
Rollback(p, e) ==
    /\ Put(p, [frame[p] EXCEPT !.err = e, !.dirty = NoDirty,
                               !.setmode = {}])
    /\ Goto(p, "done")

\* ---------------------------------------------------------- _allocate_port
UsedStatuses == {"starting", "running"}

\* select(Workspace.port).where(Workspace.status.in_([...]))
HeldPorts(db) ==
    {db[w].port : w \in {x \in WsIds : db[x].status \in UsedStatuses}}

\* for port in range(start, end + 1): if port not in used: return port
RECURSIVE ScanPorts(_, _)
ScanPorts(q, u) ==
    IF q > workspace_port_end THEN NoPort
    ELSE IF q \notin u THEN q
    ELSE ScanPorts(q + 1, u)

\* a scan that forgets the ports the runtime publishes
AllocatePort_RecordsOnly(dbUsed, listOutcome, published) ==
    ScanPorts(workspace_port_start, dbUsed)

\* the part of _allocate_port after the records query: the runtime's
\* ports are added unless the listing raised, then the scan
AllocatePort(dbUsed, listOutcome, published) ==
    ScanPorts(workspace_port_start,
              IF listOutcome = "ok" THEN dbUsed \cup published ELSE dbUsed)

\* ======================================================= create_workspace
\* port = await _allocate_port(db): the records query
AllocQuery(p) ==
    /\ Begin(p)
    /\ nextWs <= MaxWs
    /\ nextWs' = nextWs + 1
    /\ Put(p, [NewFrame EXCEPT !.op = "create_workspace",
                               !.target = nextWs,
                               !.used = HeldPorts(store)])
    /\ Goto(p, "alloc_list")
    /\ UNCHANGED <<store, containers, sessions, clock, prevStop>>

\* _allocate_port: the runtime listing and the scan; RuntimeError when no
\* port is left, else the row is added with status=starting and flushed,
\* its last_activity defaulting to the time (which stands still when
\* frozen)
AllocList(p, frozen) ==
    /\ pc[p] = "alloc_list"
    /\ \E r \in RuntimeOutcomes,
          t \in IF frozen THEN {clock} ELSE 0..MaxTime :
        LET f == frame[p]
            w == f.target
            q == AllocatePort(f.used, r, PublishedPorts(containers))
            g == [f EXCEPT !.listed = IF r = "ok" THEN "ok" ELSE "failed",
                           !.port = q]
        IN IF q = NoPort
           THEN /\ Put(p, [g EXCEPT !.err = "ResourceExhausted"])
                /\ Goto(p, "done")
                /\ UNCHANGED clock
           ELSE /\ Now(t)
                /\ Put(p, [g EXCEPT !.obj[w] = Workspace(q, t),
                                    !.dirty[w] = {"insert"}])
                /\ Goto(p, "create_container")
    /\ UNCHANGED <<store, containers, sessions, nops, nextWs, prevStop>>

\* except Exception as e: workspace.status = "stopped" (not flushed), then
\* the clean-up of the container
CreateFailed(p, e) ==
    /\ Put(p, [frame[p] EXCEPT !.obj[frame[p].target].status = "stopped",
                               !.err = e])
    /\ Goto(p, "cleanup_get")

\* docker.containers.create_or_replace(name, config)
ContainerCreate(p) ==
    /\ pc[p] = "create_container"
    /\ \E r \in RuntimeOutcomes :
        IF r = "ok"
        THEN /\ containers' = [containers EXCEPT ![frame[p].target] =
                    [exists |-> TRUE, port |-> frame[p].port, up |-> FALSE]]
             /\ Goto(p, "start")
             /\ UNCHANGED frame
        ELSE /\ CreateFailed(p, "CreateError")
             /\ UNCHANGED containers
    /\ UNCHANGED <<store, sessions, clock, nops, nextWs, prevStop>>

\* container.start(); the network attachment that follows swallows its
\* errors and changes nothing here
ContainerStart(p) ==
    /\ pc[p] = "start"
    /\ \E r \in RuntimeOutcomes :
        IF StartOutcome(containers, frame[p].target, r) = "ok"
        THEN /\ containers' = [containers EXCEPT ![frame[p].target].up = TRUE]
             /\ Goto(p, "show")
             /\ UNCHANGED frame
        ELSE /\ CreateFailed(p, "StartError")
             /\ UNCHANGED containers
    /\ UNCHANGED <<store, sessions, clock, nops, nextWs, prevStop>>

\* info = await container.show(); container_id, status = "running"; flush
ContainerShow(p) ==
    /\ pc[p] = "show"
    /\ \E r \in RuntimeOutcomes :
        IF OnContainer(containers, frame[p].target, r) = "ok"
        THEN /\ Put(p, [frame[p] EXCEPT
                    !.obj[frame[p].target].container_id = "Id",
                    !.obj[frame[p].target].status = "running"])
             /\ Goto(p, "commit")
        ELSE CreateFailed(p, "ShowError")
    /\ UNCHANGED <<store, containers, sessions, clock, nops, nextWs,
                   prevStop>>

\* stale = await docker.containers.get(container_name); an error here is
\* swallowed and the original one raised
CleanupGet(p) ==
    /\ pc[p] = "cleanup_get"
    /\ \E r \in RuntimeOutcomes :
        IF OnContainer(containers, frame[p].target, r) = "ok"
        THEN /\ Goto(p, "cleanup_delete")
             /\ UNCHANGED frame
        ELSE Rollback(p, frame[p].err)
    /\ UNCHANGED <<store, containers, sessions, clock, nops, nextWs,
                   prevStop>>

\* await stale.delete(force=True); an error here is swallowed; raise
CleanupDelete(p) ==
    /\ pc[p] = "cleanup_delete"
    /\ \E r \in RuntimeOutcomes :
        IF OnContainer(containers, frame[p].target, r) = "ok"
        THEN containers' = [containers EXCEPT ![frame[p].target] = NoCtr]
        ELSE UNCHANGED containers
    /\ Rollback(p, frame[p].err)
    /\ UNCHANGED <<store, sessions, clock, nops, nextWs, prevStop>>

\* ========================================================= stop_workspace
\* workspace.status = "stopping"; await db.flush()
StopBody(f, w, o) ==
    LET a == Assign(o, f.dirty[w], "status", "stopping")
    IN [f EXCEPT !.target = w, !.obj[w] = a[1], !.dirty[w] = a[2]]

\* the lines after the try without container_id = None
StopFinished_KeepsId(f) ==
    LET w == f.target
        a == Assign(f.obj[w], f.dirty[w], "status", "stopped")
    IN [f EXCEPT !.obj[w] = a[1], !.dirty[w] = a[2]]

\* the lines after the try: status = "stopped", container_id = None, flush
StopFinished(f) ==
    LET w == f.target
        a == Assign(f.obj[w], f.dirty[w], "status", "stopped")
        b == Assign(a[1], a[2], "container_id", "None")
    IN [f EXCEPT !.obj[w] = b[1], !.dirty[w] = b[2]]

\* stop_workspace returns to delete_workspace, or to the loop of the sweep
AfterStop(f) == IF f.op = "cleanup_idle" THEN "sweep_loop" ELSE "commit"

\* how the try block of stop_workspace takes the outcome of a runtime
\* call: a DockerError is logged; any other exception leaves
\* stop_workspace, to get_db's rollback or to the except of cleanup_idle
StopHandle(p, outcome, nextpc) ==
    IF outcome = "ok"
    THEN /\ Goto(p, nextpc)
         /\ UNCHANGED frame
    ELSE IF outcome = "DockerError"
    THEN /\ Put(p, StopFinished(frame[p]))
         /\ Goto(p, AfterStop(frame[p]))
    ELSE IF frame[p].op = "cleanup_idle"
    THEN /\ Goto(p, "sweep_loop")
         /\ UNCHANGED frame
    ELSE Rollback(p, "RuntimeError")

\* stop_workspace(workspace_id, db) from delete_workspace: the row is read;
\* ValueError("Workspace not found") when there is none
StopLoad(p, w) ==
    /\ Begin(p)
    /\ LET f == [NewFrame EXCEPT !.op = "stop_workspace", !.target = w]
       IN IF store[w] = NoRec
          THEN /\ Put(p, [f EXCEPT !.err = "NotFound"])
               /\ Goto(p, "done")
          ELSE /\ Put(p, StopBody(f, w, store[w]))
               /\ Goto(p, "stop_get")
    /\ UNCHANGED <<store, containers, sessions, clock, nextWs, prevStop>>

\* if workspace.container_id:
\*     container = await docker.containers.get(f"codevv-ws-{workspace_id}")
StopGet(p) ==
    /\ pc[p] = "stop_get"
    /\ IF frame[p].obj[frame[p].target].container_id = "None"
       THEN /\ Put(p, StopFinished(frame[p]))
            /\ Goto(p, AfterStop(frame[p]))
       ELSE \E r \in RuntimeOutcomes :
              StopHandle(p, OnContainer(containers, frame[p].target, r),
                         "stop_stop")
    /\ UNCHANGED <<store, containers, sessions, clock, nops, nextWs,
                   prevStop>>

\* await container.stop()
StopStop(p) ==
    /\ pc[p] = "stop_stop"
    /\ \E r \in RuntimeOutcomes :
        LET outcome == OnContainer(containers, frame[p].target, r)
        IN /\ StopHandle(p, outcome, "stop_delete")
           /\ containers' =
                IF outcome = "ok"
                THEN [containers EXCEPT ![frame[p].target].up = FALSE]
                ELSE containers
    /\ UNCHANGED <<store, sessions, clock, nops, nextWs, prevStop>>

\* await container.delete(force=True); then the lines after the try
StopDelete(p) ==
    /\ pc[p] = "stop_delete"
    /\ \E r \in RuntimeOutcomes :
        LET outcome == OnContainer(containers, frame[p].target, r)
        IN IF outcome = "ok"
           THEN /\ containers' = [containers EXCEPT ![frame[p].target] = NoCtr]
                /\ Put(p, StopFinished(frame[p]))
                /\ Goto(p, AfterStop(frame[p]))
           ELSE /\ StopHandle(p, outcome, "stop_delete")
                /\ UNCHANGED containers
    /\ UNCHANGED <<store, sessions, clock, nops, nextWs, prevStop>>

\* ============================================================== heartbeat
\* workspace.last_activity = datetime.now(timezone.utc) when the row exists
Heartbeat(p, w) ==
    /\ Begin(p)
    /\ \E t \in 0..MaxTime :
        /\ Now(t)
        /\ LET f == [NewFrame EXCEPT !.op = "heartbeat", !.target = w]
               a == Assign(store[w], {}, "last_activity", t)
           IN IF store[w] = NoRec
              THEN Put(p, f)
              ELSE Put(p, [f EXCEPT !.obj[w] = a[1], !.dirty[w] = a[2]])
    /\ Goto(p, "commit")
    /\ UNCHANGED <<store, containers, sessions, nextWs, prevStop>>

\* =========================================================== cleanup_idle
\* cutoff = now - timedelta(minutes=settings.workspace_idle_timeout_min)
\* where(Workspace.status == "running", Workspace.last_activity < cutoff)
IdleRows_Inclusive(db, now) ==
    {w \in WsIds : /\ db[w].status = "running"
                   /\ db[w].last_activity <= now - workspace_idle_timeout_min}

IdleRows(db, now) ==
    {w \in WsIds : /\ db[w].status = "running"
                   /\ db[w].last_activity < now - workspace_idle_timeout_min}

\* the query of cleanup_idle: idle = list(result.scalars().all())
SweepQuery(p) ==
    /\ Begin(p)
    /\ \E t \in 0..MaxTime :
        /\ Now(t)
        /\ LET rows == IdleRows(store, t)
           IN Put(p, [NewFrame EXCEPT
                !.op = "cleanup_idle",
                !.idle = rows,
                !.todo = rows,
                !.obj = [w \in WsIds |->
                            IF w \in rows THEN store[w] ELSE NoRec]])
    /\ Goto(p, "sweep_loop")
    /\ UNCHANGED <<store, containers, sessions, nextWs, prevStop>>

\* for ws in idle: try: await stop_workspace(str(ws.id), db); the select
\* of stop_workspace returns the object the session already holds
SweepStop(p) ==
    /\ pc[p] = "sweep_loop"
    /\ \E w \in frame[p].todo :
        LET f == [frame[p] EXCEPT !.todo = @ \ {w}, !.called = @ \cup {w}]
        IN Put(p, StopBody(f, w, f.obj[w]))
    /\ Goto(p, "stop_get")
    /\ UNCHANGED <<store, containers, sessions, clock, nops, nextWs,
                   prevStop>>

\* return len(idle)
SweepReturn(p) ==
    /\ pc[p] = "sweep_loop"
    /\ frame[p].todo = {}
    /\ Put(p, [frame[p] EXCEPT !.result = Cardinality(frame[p].idle)])
    /\ Goto(p, "sweep_returned")
    /\ UNCHANGED <<store, containers, sessions, clock, nops, nextWs,
                   prevStop>>

\* the caller of the sweep commits the session it passed in
SweepCommit(p) ==
    /\ pc[p] = "sweep_returned"
    /\ store' = CommitRows(store, frame[p].obj, frame[p].dirty)
    /\ Put(p, [frame[p] EXCEPT !.dirty = NoDirty])
    /\ Goto(p, "done")
    /\ UNCHANGED <<containers, sessions, clock, nops, nextWs, prevStop>>

\* ========================================================= create_session
\* if not workspace or workspace.status != "running"
NotRunning_AbsentOnly(db, w) == db[w] = NoRec

NotRunning(db, w) == db[w] = NoRec \/ db[w].status # "running"

\* create_session(workspace_id, user_id, mode, db): the row is read;
\* ValueError("Workspace not running") unless it is there and running
SessionCheck(p, w, u, m) ==
    /\ Begin(p)
    /\ LET f == [NewFrame EXCEPT !.op = "create_session", !.target = w,
                                 !.caller = u, !.reqmode = m]
       IN IF NotRunning(store, w)
          THEN /\ Put(p, [f EXCEPT !.err = "InvalidState"])
               /\ Goto(p, "done")
          ELSE /\ Put(p, [f EXCEPT !.obj[w] = store[w]])
               /\ Goto(p, "session_exec")
    /\ UNCHANGED <<store, containers, sessions, clock, nextWs, prevStop>>

\* session_id = uuid.uuid4(): an id no other row has
FreshSessionIds ==
    SessionIds \ ({s.id : s \in sessions} \cup
                  UNION {{n.id : n \in frame[q].newsess} : q \in Procs})

\* _exec_in_container(container_name, ["tmux", "new-session", ...]); then
\* the TerminalSession row is added and flushed
SessionExec(p) ==
    /\ pc[p] = "session_exec"
    /\ \E r \in RuntimeOutcomes, sid \in FreshSessionIds :
        LET f == frame[p]
        IN IF ExecOutcome(containers, f.target, r) = "ok"
           THEN /\ Put(p, [f EXCEPT
                      !.nexec = @ + 1,
                      !.newsess = {TerminalSession(sid, f.target, f.caller,
                                                   f.reqmode)}])
                /\ Goto(p, "commit")
           ELSE Rollback(p, "RuntimeError")
    /\ UNCHANGED <<store, containers, sessions, clock, nops, nextWs,
                   prevStop>>

\* =============================================================== set_mode
\* get_session: select(TerminalSession).where(TerminalSession.id == ...)
GetSession(rows, sid) == {s \in rows : s.id = sid}

\* the UPDATE of terminal_sessions.mode that a commit carries
CommitModes(rows, upd) ==
    {IF \E u \in upd : u[1] = s.id
     THEN [s EXCEPT !.mode = (CHOOSE u \in upd : u[1] = s.id)[2]]
     ELSE s : s \in rows}

\* an ownership test that lets every caller through
IsOwner_Anyone(s, u) == TRUE

\* if session.owner_id != user_id: raise PermissionError
IsOwner(s, u) == s.owner_id = u

\* set_mode(session_id, user_id, mode, db): ValueError when the session is
\* not found, PermissionError when the caller does not own it, else
\* session.mode = mode and flush
SetMode(p, sid, u, m) ==
    /\ Begin(p)
    /\ LET f == [NewFrame EXCEPT !.op = "set_mode", !.sid = sid,
                                 !.caller = u, !.reqmode = m]
           found == GetSession(sessions, sid)
       IN IF found = {}
          THEN /\ Put(p, [f EXCEPT !.err = "NotFound"])
               /\ Goto(p, "done")
          ELSE LET s == CHOOSE x \in found : TRUE
               IN IF ~IsOwner(s, u)
                  THEN /\ Put(p, [f EXCEPT !.err = "PermissionDenied"])
                       /\ Goto(p, "done")
                  ELSE /\ Put(p, [f EXCEPT !.setmode =
                                IF s.mode = m THEN {} ELSE {<<sid, m>>}])
                       /\ Goto(p, "commit")
    /\ UNCHANGED <<store, containers, sessions, clock, nextWs, prevStop>>

\* ============================================================ terminal_ws
\* sid = uuid.UUID(session_id)
ParsesAsUuid(x) == x \in SessionIds

\* the connection arrives: _verify_ws_token, then close(4001) or
\* ws.accept() and the parse of the session id (an unparsable id raises
\* ValueError out of the handler)
WsConnect(p, tokenOk, x, u) ==
    /\ Begin(p)
    /\ LET f == [NewFrame EXCEPT !.op = "terminal_ws"]
       IN IF ~tokenOk
          THEN /\ Put(p, [f EXCEPT !.closed = CODE_UNAUTHORIZED,
                                   !.err = "Unauthorized"])
               /\ Goto(p, "done")
          ELSE IF ~ParsesAsUuid(x)
          THEN /\ Put(p, [f EXCEPT !.accepted = TRUE, !.caller = u,
                                   !.err = "ValueError"])
               /\ Goto(p, "done")
          ELSE /\ Put(p, [f EXCEPT !.accepted = TRUE, !.caller = u,
                                   !.sid = x])
               /\ Goto(p, "ws_session")
    /\ UNCHANGED <<store, containers, sessions, clock, nextWs, prevStop>>

\* select(TerminalSession).where(TerminalSession.id == sid); close(4004)
\* when there is none
WsSession(p) ==
    /\ pc[p] = "ws_session"
    /\ LET found == GetSession(sessions, frame[p].sid)
       IN IF found = {}
          THEN /\ Put(p, [frame[p] EXCEPT !.closed = CODE_NOT_FOUND])
               /\ Goto(p, "done")
          ELSE /\ Put(p, [frame[p] EXCEPT
                      !.sessrow = found,
                      !.target = (CHOOSE s \in found : TRUE).workspace_id])
               /\ Goto(p, "ws_workspace")
    /\ UNCHANGED <<store, containers, sessions, clock, nops, nextWs,
                   prevStop>>

\* select(Workspace).where(Workspace.id == session.workspace_id);
\* close(4004) unless it is there and running
WsWorkspace(p) ==
    /\ pc[p] = "ws_workspace"
    /\ IF NotRunning(store, frame[p].target)
       THEN /\ Put(p, [frame[p] EXCEPT !.closed = CODE_NOT_FOUND])
            /\ Goto(p, "done")
       ELSE /\ Put(p, [frame[p] EXCEPT
                    !.obj[frame[p].target] = store[frame[p].target]])
            /\ Goto(p, "ws_initial")
    /\ UNCHANGED <<store, containers, sessions, clock, nops, nextWs,
                   prevStop>>

\* initial = await read_output(session, workspace); ws.send_text(initial);
\* an exception of either is logged; then the poller task is created
WsInitial(p) ==
    /\ pc[p] = "ws_initial"
    /\ \E r \in RuntimeOutcomes, text \in Texts, sendOk \in BOOLEAN :
        LET f == [frame[p] EXCEPT !.poller = "polling"]
        IN IF ExecOutcome(containers, f.target, r) = "ok" /\ sendOk
           THEN Put(p, [f EXCEPT !.sent = <<[kind |-> "initial",
                                            data |-> text]>>])
           ELSE Put(p, f)
    /\ Goto(p, "ws_subscribe")
    /\ UNCHANGED <<store, containers, sessions, clock, nops, nextWs,
                   prevStop>>

\* await pubsub.subscribe(channel); the listener task is created.  When
\* the subscription raises, the handler ends with the poller running.
WsSubscribe(p) ==
    /\ pc[p] = "ws_subscribe"
    /\ \E ok \in BOOLEAN :
        IF ok
        THEN /\ Put(p, [frame[p] EXCEPT !.subscribed = TRUE])
             /\ Goto(p, "ws_serving")
        ELSE /\ Put(p, [frame[p] EXCEPT !.err = "RuntimeError"])
             /\ Goto(p, "done")
    /\ UNCHANGED <<store, containers, sessions, clock, nops, nextWs,
                   prevStop>>

\* a bus that hands the newest message over first
Publish_Front(fr, sid, text) ==
    [q \in Procs |->
        IF fr[q].subscribed /\ fr[q].sid = sid
        THEN [fr[q] EXCEPT !.inbox = <<text>> \o @]
        ELSE fr[q]]

\* redis.publish(channel, output): every listener subscribed to the
\* channel of the session gets the message
Publish(fr, sid, text) ==
    [q \in Procs |->
        IF fr[q].subscribed /\ fr[q].sid = sid
        THEN [fr[q] EXCEPT !.inbox = Append(@, text)]
        ELSE fr[q]]

\* one iteration of output_poller: the rows are read again (the loop ends
\* when one is gone), the screen is captured (the loop ends when that
\* raises) and published if it differs from last_output
Poll(p) ==
    /\ frame[p].poller = "polling"
    /\ Len(frame[p].polls) < MaxPolls
    /\ LET f == frame[p]
       IN IF GetSession(sessions, f.sid) = {} \/ store[f.target] = NoRec
          THEN Put(p, [f EXCEPT !.poller = "ended"])
          ELSE \E r \in RuntimeOutcomes, output \in Texts, pubOk \in BOOLEAN :
                IF ExecOutcome(containers, f.target, r) # "ok"
                THEN Put(p, [f EXCEPT !.poller = "ended"])
                ELSE IF output = f.last_output
                THEN Put(p, [f EXCEPT
                        !.polls = Append(@, [output |-> output,
                                             publish |-> FALSE])])
                ELSE LET g == [f EXCEPT
                                !.last_output = output,
                                !.polls = Append(@, [output |-> output,
                                                     publish |-> TRUE])]
                     IN IF pubOk
                        THEN frame' = Publish([frame EXCEPT ![p] = g],
                                              f.sid, output)
                        ELSE Put(p, [g EXCEPT !.poller = "ended"])
    /\ UNCHANGED <<store, containers, sessions, clock, nops, nextWs, pc,
                   prevStop>>

\* redis_listener: async for message in pubsub.listen():
\*     await ws.send_text(message["data"])
Listen(p) ==
    /\ frame[p].subscribed
    /\ frame[p].inbox # <<>>
    /\ Put(p, [frame[p] EXCEPT
            !.sent = Append(@, [kind |-> "bus",
                                data |-> Head(frame[p].inbox)]),
            !.inbox = Tail(@)])
    /\ UNCHANGED <<store, containers, sessions, clock, nops, nextWs, pc,
                   prevStop>>

\* a drop rule that ignores who is typing
Dropped_Readonly(s, u) == s.mode = "readonly"

\* send_input: if session.mode == "readonly" and session.owner_id != user_id
Dropped(s, u) == s.mode = "readonly" /\ s.owner_id # u

\* send_input(session, workspace, data, user_id): the commands it issues
SendInput(s, w, u) ==
    IF Dropped(s, u) THEN <<>>
    ELSE <<[container |-> w, kind |-> "send-keys", target |-> s.tmux_session]>>

\* the session row as it was read when the connection was made
InputSession_AtConnect(f, rows) == f.sessrow

\* select(TerminalSession).where(TerminalSession.id == sid) in a session
\* of its own, for each text received
InputSession(f, rows) == GetSession(rows, f.sid)

\* data = await ws.receive_text(): the rows are read again and, when both
\* are there, send_input is called; an exception of the command ends the
\* connection through the finally block
WsInput(p) ==
    /\ pc[p] = "ws_serving"
    /\ frame[p].ninputs < MaxInputs
    /\ LET f == [frame[p] EXCEPT !.ninputs = @ + 1]
           found == InputSession(f, sessions)
       IN IF found = {} \/ store[f.target] = NoRec
          THEN /\ Put(p, f)
               /\ UNCHANGED pc
          ELSE LET issued == SendInput(CHOOSE s \in found : TRUE, f.target,
                                       f.caller)
               IN \E r \in RuntimeOutcomes :
                    IF issued = <<>>
                          \/ ExecOutcome(containers, f.target, r) = "ok"
                    THEN /\ Put(p, [f EXCEPT
                                !.cmds = @ \o issued,
                                !.applied = IF issued = <<>> THEN @
                                            ELSE Append(@, f.ninputs)])
                         /\ UNCHANGED pc
                    ELSE /\ Put(p, [f EXCEPT
                                !.cmds = @ \o issued,
                                !.applied = Append(@, f.ninputs),
                                !.err = "RuntimeError",
                                !.poller = IF @ = "polling" THEN "cancelled"
                                           ELSE @,
                                !.subscribed = FALSE])
                         /\ Goto(p, "done")
    /\ UNCHANGED <<store, containers, sessions, clock, nops, nextWs,
                   prevStop>>

\* except WebSocketDisconnect: pass; finally: both tasks are cancelled
WsDisconnect(p) ==
    /\ pc[p] = "ws_serving"
    /\ Put(p, [frame[p] EXCEPT
            !.poller = IF @ = "polling" THEN "cancelled" ELSE @,
            !.subscribed = FALSE])
    /\ Goto(p, "done")
    /\ UNCHANGED <<store, containers, sessions, clock, nops, nextWs,
                   prevStop>>

\* ========================================================== detect_cycles
SeqToSet(sq) == {sq[i] : i \in DOMAIN sq}

\* the keys of adj: the nodes, then the sources setdefault() adds
AdjKeys(nodes, edges) ==
    SeqToSet(nodes) \cup {edges[i][1] : i \in DOMAIN edges}

\* adj[u]: the targets of the edges leaving u, in list order
RECURSIVE Adj(_, _, _)
Adj(edges, u, i) ==
    IF i > Len(edges) THEN <<>>
    ELSE IF edges[i][1] = u THEN <<edges[i][2]>> \o Adj(edges, u, i + 1)
    ELSE Adj(edges, u, i + 1)

\* rev_adj[u]: the sources of the edges entering u, in list order
RECURSIVE RevAdj(_, _, _)
RevAdj(edges, u, i) ==
    IF i > Len(edges) THEN <<>>
    ELSE IF edges[i][2] = u THEN <<edges[i][1]>> \o RevAdj(edges, u, i + 1)
    ELSE RevAdj(edges, u, i + 1)

\* path.index(v)
IndexOf(path, v) == CHOOSE i \in DOMAIN path :
                        path[i] = v /\ \A j \in 1..(i - 1) : path[j] # v

\* a cycle taken to be the whole path
CyclePath_Whole(path, idx) == path

\* path[idx:]
CyclePath(path, idx) == SubSeq(path, idx, Len(path))

\* [name_map[n] for n in path[idx:]]: KeyError for an id that is no node
CycleNames(nodes, ids) ==
    IF SeqToSet(ids) \subseteq SeqToSet(nodes)
    THEN [err |-> "none", names |-> [i \in DOMAIN ids |-> Names[ids[i]]]]
    ELSE [err |-> "KeyError", names |-> <<>>]

\* dfs(u) and its loop over adj[u]; st holds color, path, cycles and the
\* exception raised, if any
RECURSIVE Dfs(_, _, _, _), DfsLoop(_, _, _, _, _)
Dfs(nodes, edges, u, st) ==
    LET st1 == [st EXCEPT !.color[u] = "GRAY", !.path = Append(@, u)]
        st2 == DfsLoop(nodes, edges, u, 1, st1)
    IN IF st2.err # "none" THEN st2
       ELSE [st2 EXCEPT !.path = SubSeq(@, 1, Len(@) - 1),
                        !.color[u] = "BLACK"]

DfsLoop(nodes, edges, u, i, st) ==
    LET out == Adj(edges, u, 1)
    IN IF st.err # "none" \/ i > Len(out) THEN st
       ELSE LET v == out[i]
            IN IF st.color[v] = "GRAY"
               THEN LET cycle == CycleNames(nodes,
                                    CyclePath(st.path, IndexOf(st.path, v)))
                    IN IF cycle.err # "none"
                       THEN [st EXCEPT !.err = cycle.err]
                       ELSE DfsLoop(nodes, edges, u, i + 1,
                                [st EXCEPT !.cycles = Append(@, cycle.names)])
               ELSE IF st.color[v] = "WHITE"
               THEN DfsLoop(nodes, edges, u, i + 1,
                            Dfs(nodes, edges, v, st))
               ELSE DfsLoop(nodes, edges, u, i + 1, st)

\* for nid in adj: if color[nid] == WHITE: dfs(nid); the keys in the
\* order of the dict: the nodes, then the added sources
RECURSIVE DfsAll(_, _, _, _)
DfsAll(nodes, edges, keys, st) ==
    IF keys = <<>> \/ st.err # "none" THEN st
    ELSE DfsAll(nodes, edges, Tail(keys),
                IF st.color[Head(keys)] = "WHITE"
                THEN Dfs(nodes, edges, Head(keys), st) ELSE st)

\* the added sources, in the order of their first edge
RECURSIVE AddedKeys(_, _, _)
AddedKeys(edges, have, i) ==
    IF i > Len(edges) THEN <<>>
    ELSE IF edges[i][1] \in have THEN AddedKeys(edges, have, i + 1)
    ELSE <<edges[i][1]>> \o AddedKeys(edges, have \cup {edges[i][1]}, i + 1)

\* detect_cycles(nodes, edges): the cycles, and the exception if raised
detect_cycles(nodes, edges) ==
    LET keys == nodes \o AddedKeys(edges, SeqToSet(nodes), 1)
        st0 == [color |-> [n \in Ids |->
                            IF n \in AdjKeys(nodes, edges)
                            THEN "WHITE" ELSE "None"],
                path |-> <<>>, cycles |-> <<>>, err |-> "none"]
        st == DfsAll(nodes, edges, keys, st0)
    IN [cycles |-> IF st.err = "none" THEN st.cycles ELSE <<>>,
        err |-> st.err]

\* ======================================================= calculate_impact
\* visited.discard(nid) left out
Discard_Nothing(visited, nid) == visited

\* visited.discard(nid)
Discard(visited, nid) == visited \ {nid}

\* while queue: current = queue.pop(0); ...
RECURSIVE ImpactBfs(_, _, _)
ImpactBfs(edges, queue, visited) ==
    IF queue = <<>> THEN visited
    ELSE LET current == Head(queue)
         IN IF current \in visited
            THEN ImpactBfs(edges, Tail(queue), visited)
            ELSE ImpactBfs(edges,
                    Tail(queue) \o SelectSeq(RevAdj(edges, current, 1),
                        LAMBDA n : n \notin visited \cup {current}),
                    visited \cup {current})

\* calculate_impact(node_id, nodes, edges)
calculate_impact(node_id, nodes, edges) ==
    LET direct == SeqToSet(RevAdj(edges, node_id, 1))
        visited == Discard(ImpactBfs(edges, <<node_id>>, {}), node_id)
    IN [direct_dependents |-> Cardinality(direct),
        transitive_dependents |-> Cardinality(visited),
        affected_nodes |-> {Names[v] : v \in visited \cap SeqToSet(nodes)}]

\* ======================================================== _calc_max_depth
\* while stack: nid, depth = stack.pop(); ...; the stack holds
\* <<nid, depth>>, its top last
RECURSIVE DepthDfs(_, _, _, _)
DepthDfs(edges, stack, visited, max_d) ==
    IF stack = <<>> THEN max_d
    ELSE LET top == stack[Len(stack)]
             rest == SubSeq(stack, 1, Len(stack) - 1)
             out == Adj(edges, top[1], 1)
         IN IF top[1] \in visited
            THEN DepthDfs(edges, rest, visited, max_d)
            ELSE DepthDfs(edges,
                    rest \o [i \in DOMAIN SelectSeq(out,
                                LAMBDA n : n \notin visited \cup {top[1]}) |->
                             <<SelectSeq(out,
                                LAMBDA n : n \notin visited \cup {top[1]})[i],
                               top[2] + 1>>],
                    visited \cup {top[1]},
                    IF top[2] > max_d THEN top[2] ELSE max_d)

\* a search from the first node only
DepthAll_FirstRoot(edges, nodes, max_d) ==
    IF nodes = <<>> THEN max_d
    ELSE DepthDfs(edges, <<<<Head(nodes), 0>>>>, {}, max_d)

\* for node in nodes: a search from every node, max_d kept across them
RECURSIVE DepthAll(_, _, _)
DepthAll(edges, nodes, max_d) ==
    IF nodes = <<>> THEN max_d
    ELSE DepthAll(edges, Tail(nodes),
                  DepthDfs(edges, <<<<Head(nodes), 0>>>>, {}, max_d))

\* _calc_max_depth(nodes, edges)
calc_max_depth(nodes, edges) ==
    IF edges = <<>> THEN 0 ELSE DepthAll(edges, nodes, 0)

\* no request is in progress
Quiet == \A q \in Procs : pc[q] = "idle"

\* a handler applies one of the dependency algorithms to a graph
GraphCall(p, fn, nodes, edges, node_id) ==
    /\ pc[p] = "idle"
    /\ LET f == [NewFrame EXCEPT !.op = fn, !.nodes = nodes,
                                 !.edges = edges]
           dc == detect_cycles(nodes, edges)
       IN CASE fn = "detect_cycles" ->
                 Put(p, [f EXCEPT !.cycles = dc.cycles, !.err = dc.err])
            [] fn = "calculate_impact" ->
                 Put(p, [f EXCEPT !.node_id = node_id,
                            !.impact = calculate_impact(node_id, nodes,
                                                        edges)])
            [] fn = "_calc_max_depth" ->
                 Put(p, [f EXCEPT !.max_depth = calc_max_depth(nodes, edges)])
    /\ Goto(p, "done")
    /\ UNCHANGED <<store, containers, sessions, clock, nops, nextWs,
                   prevStop>>

\* ========================================================= traverse_graph
\* g.depth <= :max_depth
DepthOpen_Closed(depth, max_depth) == depth <= max_depth

\* WHERE g.depth < :max_depth
DepthOpen(depth, max_depth) == depth < max_depth

\* if req.relation_types: ... AND r.relation_type IN (...)
RelationFilter(relations, relation_types) ==
    IF relation_types = {} THEN relations
    ELSE {r \in relations : r[3] \in relation_types}

\* CASE WHEN r.source_id = g.id THEN r.target_id ELSE r.source_id END
OtherEnd(r, id) == IF r[1] = id THEN r[2] ELSE r[1]

\* the recursive term applied to the working table: one row
\* <<id, depth + 1>> for each row g and each relation with g.id at an end
RecursiveTerm(rel, work, max_depth) ==
    {<<OtherEnd(r, g[1]), g[2] + 1>> :
        <<g, r>> \in {x \in work \X rel :
                        /\ x[2][1] = x[1][1] \/ x[2][2] = x[1][1]
                        /\ DepthOpen(x[1][2], max_depth)}}

\* WITH RECURSIVE graph AS (... UNION ...): the recursive term is applied
\* to the rows added last, rows already in graph are dropped, until no
\* row is added
RECURSIVE GraphCte(_, _, _, _)
GraphCte(rel, work, graph, max_depth) ==
    LET new == RecursiveTerm(rel, work, max_depth) \ graph
    IN IF new = {} THEN graph
       ELSE GraphCte(rel, new, graph \cup new, max_depth)

\* traverse_graph: the rows <<id, depth>> of the query, then the relations
\* between the ids found
Traverse(p, relations, start_id, max_depth, relation_types) ==
    /\ pc[p] = "idle"
    /\ LET start == IF start_id \in Ids THEN {<<start_id, 0>>} ELSE {}
           rows == GraphCte(RelationFilter(relations, relation_types),
                            start, start, max_depth)
           node_ids == {row[1] : row \in rows}
       IN Put(p, [NewFrame EXCEPT
               !.op = "traverse_graph", !.relations = relations,
               !.start_id = start_id, !.max_depth = max_depth,
               !.relation_types = relation_types,
               !.rows = rows,
               !.gedges = {r \in relations :
                             r[1] \in node_ids /\ r[2] \in node_ids}])
    /\ Goto(p, "done")
    /\ UNCHANGED <<store, containers, sessions, clock, nops, nextWs,
                   prevStop>>

\* ================================================= build_dependency_graph
\* str.lower() on the names of the bounds
Lower(name) ==
    CASE name \in {"Api", "API", "api"} -> "api"
      [] name \in {"Db", "db"} -> "db"

\* comp_name_map = {n["name"].lower(): n["id"] for n in nodes}: the
\* entries are written in the order of nodes, a later one over an
\* earlier one of the same key
RECURSIVE CompNameMap(_, _, _)
CompNameMap(comps, i, map) ==
    IF i > Len(comps) THEN map
    ELSE CompNameMap(comps, i + 1,
            [k \in DOMAIN map \cup {Lower(comps[i])} |->
                IF k = Lower(comps[i]) THEN i ELSE map[k]])

\* for entity in entities: if entity.name.lower() in comp_name_map: ...;
\* entities holds the rows with entity_type == "component" only
EntityNameToComp(comps, entities) ==
    LET comp_name_map == CompNameMap(comps, 1, <<>>)
    IN {<<e, comp_name_map[Lower(entities[e][1])]>> :
          e \in {x \in DOMAIN entities :
                    /\ entities[x][2] = "component"
                    /\ Lower(entities[x][1]) \in DOMAIN comp_name_map}}

\* edges of the relations whose source is matched, whatever their target
BuildEdges_SourceOnly(matched, relations) ==
    {<<m[2], r[2], r[3]>> :
        <<m, r>> \in {x \in matched \X relations : x[2][1] = x[1][1]}}

\* the relations with source_id and target_id among the matched entities,
\* each re-expressed between the components of its ends
BuildEdges(matched, relations) ==
    {<<m[2], n[2], r[3]>> :
        <<m, n, r>> \in {x \in matched \X matched \X relations :
                            x[3][1] = x[1][1] /\ x[3][2] = x[2][1]}}

\* build_dependency_graph(project_id, db)
BuildGraph(p, comps, entities, relations) ==
    /\ pc[p] = "idle"
    /\ LET matched == EntityNameToComp(comps, entities)
       IN Put(p, [NewFrame EXCEPT
               !.op = "build_dependency_graph",
               !.comps = comps, !.entities = entities,
               !.relations = relations,
               !.nodes = [i \in DOMAIN comps |-> i],
               !.matched = matched,
               !.built = BuildEdges(matched, relations)])
    /\ Goto(p, "done")
    /\ UNCHANGED <<store, containers, sessions, clock, nops, nextWs,
                   prevStop>>

\* ================================================================= get_db
\* await session.commit() after the handler returned
Commit(p) ==
    /\ pc[p] = "commit"
    /\ store' = CommitRows(store, frame[p].obj, frame[p].dirty)
    /\ sessions' = CommitModes(sessions, frame[p].setmode)
                        \cup frame[p].newsess
    /\ Put(p, [frame[p] EXCEPT !.dirty = NoDirty, !.setmode = {}])
    /\ Goto(p, "done")
    /\ UNCHANGED <<containers, clock, nops, nextWs, prevStop>>

\* the response is sent; the handler is free for the next request
Return(p) ==
    /\ pc[p] = "done"
    /\ Goto(p, "idle")
    /\ prevStop' = [prevStop EXCEPT ![p] =
            IF frame[p].op = "stop_workspace" /\ frame[p].err # "NotFound"
            THEN frame[p].target ELSE 0]
    /\ Put(p, NewFrame)
    /\ UNCHANGED <<store, containers, sessions, clock, nops, nextWs>>

\* ------------------------------------------------------- specifications
Init ==
    /\ store = NoRows
    /\ containers = [w \in WsIds |-> NoCtr]
    /\ sessions = {}
    /\ clock = 0
    /\ nops = 0
    /\ nextWs = 1
    /\ pc = [p \in Procs |-> "idle"]
    /\ frame = [p \in Procs |-> NewFrame]
    /\ prevStop = [p \in Procs |-> 0]

\* a workspace is running with its container up and two terminal sessions
\* in it, one of each owner and mode; the handlers are free
ServingSessions ==
    {TerminalSession(<<"aaaaaaaa", 1>>, 1, "u1", "collaborative"),
     TerminalSession(<<"bbbbbbbb", 1>>, 1, "u2", "readonly")}

InitServing ==
    /\ store = [NoRows EXCEPT ![1] = [status |-> "running",
                                      port |-> workspace_port_start,
                                      container_id |-> "Id",
                                      last_activity |-> 0]]
    /\ containers = [w \in WsIds |->
                        IF w = 1
                        THEN [exists |-> TRUE, port |-> workspace_port_start,
                              up |-> TRUE]
                        ELSE NoCtr]
    /\ sessions = ServingSessions
    /\ clock = 0
    /\ nops = 0
    /\ nextWs = 2
    /\ pc = [p \in Procs |-> "idle"]
    /\ frame = [p \in Procs |-> NewFrame]
    /\ prevStop = [p \in Procs |-> 0]

CreateWorkspace(p, frozen) ==
    \/ AllocQuery(p)
    \/ AllocList(p, frozen)
    \/ ContainerCreate(p)
    \/ ContainerStart(p)
    \/ ContainerShow(p)
    \/ CleanupGet(p)
    \/ CleanupDelete(p)
    \/ Commit(p)
    \/ Return(p)

\* the body of stop_workspace, entered from StopLoad or from the sweep
StopWorkspace(p) ==
    \/ StopGet(p)
    \/ StopStop(p)
    \/ StopDelete(p)

CleanupIdle(p) ==
    \/ SweepQuery(p)
    \/ SweepStop(p)
    \/ SweepReturn(p)
    \/ SweepCommit(p)
    \/ StopWorkspace(p)

DeleteWorkspace(p) ==
    \/ \E w \in WsIds : StopLoad(p, w)
    \/ StopWorkspace(p)

CreateSession(p) ==
    \/ \E w \in WsIds, u \in Users, m \in Modes : SessionCheck(p, w, u, m)
    \/ SessionExec(p)

\* the workspace lifecycle: create, stop, heartbeat and the idle sweep
Next ==
    \E p \in Procs :
        \/ CreateWorkspace(p, FALSE)
        \/ \E w \in WsIds : StopLoad(p, w)
        \/ \E w \in WsIds : Heartbeat(p, w)
        \/ CleanupIdle(p)

Spec == Init /\ [][Next]_vars

\* port allocation: creates and stops, the clock standing still
NextAlloc ==
    \E p \in Procs :
        \/ CreateWorkspace(p, TRUE)
        \/ DeleteWorkspace(p)

SpecAlloc == Init /\ [][NextAlloc]_vars

\* the idle sweep: creates, heartbeats and sweeps
NextSweep ==
    \E p \in Procs :
        \/ CreateWorkspace(p, FALSE)
        \/ \E w \in WsIds : Heartbeat(p, w)
        \/ CleanupIdle(p)

SpecSweep == Init /\ [][NextSweep]_vars

\* a step in which the container runtime did what it was asked: the
\* listing answered, and a call on the container of the handler's
\* workspace raised only if that container was not there (or, for start,
\* its port was taken)
RuntimeWorked(p) ==
    LET w == frame[p].target
    IN /\ pc[p] = "alloc_list" => frame'[p].listed = "ok"
       /\ pc[p] = "create_container" => pc'[p] = "start"
       /\ (pc[p] = "start"
             /\ StartOutcome(containers, w, "ok") = "ok") => pc'[p] = "show"
       /\ (pc[p] = "show" /\ containers[w].exists) => pc'[p] = "commit"
       /\ (pc[p] = "cleanup_get" /\ containers[w].exists)
            => pc'[p] = "cleanup_delete"
       /\ (pc[p] = "cleanup_delete" /\ containers[w].exists)
            => ~containers'[w].exists
       /\ pc[p] \in {"stop_get", "stop_stop", "stop_delete"}
            => frame'[p].err = "none"
       /\ (pc[p] = "stop_get" /\ containers[w].exists
             /\ frame[p].obj[w].container_id # "None")
            => pc'[p] = "stop_stop"
       /\ (pc[p] = "stop_stop" /\ containers[w].exists)
            => pc'[p] = "stop_delete"
       /\ (pc[p] = "stop_delete" /\ containers[w].exists)
            => ~containers'[w].exists

\* creates and stops with a container runtime that does not fail, the
\* clock standing still
NextClean ==
    \E p \in Procs :
        \/ AllocQuery(p)
        \/ AllocList(p, TRUE) /\ RuntimeWorked(p)
        \/ ContainerCreate(p) /\ RuntimeWorked(p)
        \/ ContainerStart(p) /\ RuntimeWorked(p)
        \/ ContainerShow(p) /\ RuntimeWorked(p)
        \/ CleanupGet(p) /\ RuntimeWorked(p)
        \/ CleanupDelete(p) /\ RuntimeWorked(p)
        \/ \E w \in WsIds : StopLoad(p, w)
        \/ StopGet(p) /\ RuntimeWorked(p)
        \/ StopStop(p) /\ RuntimeWorked(p)
        \/ StopDelete(p) /\ RuntimeWorked(p)
        \/ Commit(p)
        \/ Return(p)

SpecClean == Init /\ [][NextClean]_vars

\* terminal sessions: creates, stops and create_session, the clock
\* standing still
NextTerm ==
    \E p \in Procs :
        \/ CreateWorkspace(p, TRUE)
        \/ DeleteWorkspace(p)
        \/ CreateSession(p)

SpecTerm == Init /\ [][NextTerm]_vars

\* the terminal sessions of a running workspace: new sessions and mode
\* changes
UpdateTerminalMode(p) ==
    \/ \E sid \in SessionIds, u \in Users, m \in Modes : SetMode(p, sid, u, m)
    \/ Commit(p)
    \/ Return(p)

NextMode ==
    \E p \in Procs :
        \/ UpdateTerminalMode(p)
        \/ CreateSession(p)

SpecMode == InitServing /\ [][NextMode]_vars

\* one connection of the terminal bridge, of a user among U
TerminalWs(p, U) ==
    \/ \E tokenOk \in BOOLEAN, x \in SessionIds \cup {Malformed}, u \in U :
            WsConnect(p, tokenOk, x, u)
    \/ WsSession(p)
    \/ WsWorkspace(p)
    \/ WsInitial(p)
    \/ WsSubscribe(p)
    \/ WsDisconnect(p)

\* the bridge as input router: connections, their input and workspaces
\* being stopped
NextInput ==
    \E p \in Procs :
        \/ TerminalWs(p, Users)
        \/ WsInput(p)
        \/ Return(p)
        \/ \E w \in WsIds : StopLoad(p, w)
        \/ StopWorkspace(p)
        \/ Commit(p)

SpecInput == InitServing /\ [][NextInput]_vars

\* the bridge as input router while the modes of the sessions change
NextRouter ==
    \E p \in Procs :
        \/ TerminalWs(p, Users)
        \/ WsInput(p)
        \/ UpdateTerminalMode(p)

SpecRouter == InitServing /\ [][NextRouter]_vars

\* the bridge in both directions: one connection, its poller and
\* listener and its input
NextOrder ==
    \/ TerminalWs("p1", {"u1"})
    \/ Poll("p1")
    \/ Listen("p1")
    \/ WsInput("p1")

SpecOrder == InitServing /\ [][NextOrder]_vars

\* the bridge as output stream: one connection of the same user per
\* handler, their pollers and listeners
NextBridge ==
    \E p \in Procs :
        \/ TerminalWs(p, {"u1"})
        \/ Poll(p)
        \/ Listen(p)

SpecBridge == InitServing /\ [][NextBridge]_vars

\* the dependency algorithms on the graphs of the bounds
DependencyGraph(p) ==
    \/ /\ Quiet
       /\ \E nodes \in NodeLists, edges \in EdgeLists :
            GraphCall(p, "detect_cycles", nodes, edges, 0)
    \/ /\ Quiet
       /\ \E nodes \in NodeLists, edges \in EdgeLists, n \in Ids :
            GraphCall(p, "calculate_impact", nodes, edges, n)
    \/ /\ Quiet
       /\ \E nodes \in NodeLists, edges \in EdgeLists :
            GraphCall(p, "_calc_max_depth", nodes, edges, 0)
    \/ Return(p)

NextGraph == \E p \in Procs : DependencyGraph(p)

SpecGraph == Init /\ [][NextGraph]_vars

\* traversals of the knowledge graphs of the bounds; max_depth is any
\* integer the request carries, a negative one included
TraverseGraph(p) ==
    \/ /\ Quiet
       /\ \E relations \in RelationSets, start_id \in Ids \cup {NoEntity},
             max_depth \in (-1)..MaxDepth,
             relation_types \in SUBSET RelationTypes :
            Traverse(p, relations, start_id, max_depth, relation_types)
    \/ Return(p)

NextTraverse == \E p \in Procs : TraverseGraph(p)

SpecTraverse == Init /\ [][NextTraverse]_vars

\* the graph builder on the components, entities and relations of the
\* bounds
DependencyBuild(p) ==
    \/ /\ Quiet
       /\ \E comps \in ComponentLists, entities \in EntityTables,
             relations \in BuildRelationSets :
            BuildGraph(p, comps, entities, relations)
    \/ Return(p)

NextBuild == \E p \in Procs : DependencyBuild(p)

SpecBuild == Init /\ [][NextBuild]_vars

\* ----------------------------------------------------------------- claims
PortRange == workspace_port_start..workspace_port_end
Lowest(S) == CHOOSE q \in S : \A r \in S : q <= r

\* C1: at no moment do two committed workspace rows whose status is
\* starting or running hold the same port.
C1_PortExclusive ==
    \A w1 \in WsIds, w2 \in WsIds :
        (/\ w1 # w2
         /\ store[w1].status \in {"starting", "running"}
         /\ store[w2].status \in {"starting", "running"})
        => store[w1].port # store[w2].port

C3_FailedCreateCleansUp ==
    \A p \in Procs :
        (/\ pc[p] = "done"
         /\ frame[p].op = "create_workspace"
         /\ frame[p].err \in {"StartError", "ShowError"})
        => /\ ~containers[frame[p].target].exists
           /\ store[frame[p].target].status = "stopped"

\* C4: stop_workspace fails only with NotFound, and only when there is no
\* record; otherwise it returns the record stopped and without a
\* container identifier, whatever the container runtime did.
C4_StopAlwaysStops ==
    \A p \in Procs :
        (pc[p] = "done" /\ frame[p].op = "stop_workspace")
        => /\ frame[p].err \in {"none", "NotFound"}
           /\ frame[p].err = "none"
              => /\ frame[p].obj[frame[p].target].status = "stopped"
                 /\ frame[p].obj[frame[p].target].container_id = "None"

\* C5: a stop_workspace that follows a stop_workspace of the same
\* workspace succeeds and leaves the record stopped with no container
\* identifier.
C5_StopTwice ==
    \A p \in Procs :
        (/\ pc[p] = "done"
         /\ frame[p].op = "stop_workspace"
         /\ prevStop[p] = frame[p].target)
        => /\ frame[p].err = "none"
           /\ frame[p].obj[frame[p].target].status = "stopped"
           /\ frame[p].obj[frame[p].target].container_id = "None"

Rank(st) ==
    CASE st = "absent" -> 0
      [] st = "starting" -> 1
      [] st = "running" -> 2
      [] st = "stopping" -> 3
      [] st = "stopped" -> 4

\* C6: a workspace's status only moves forward, starting, running,
\* stopping, stopped: neither the committed row nor the row as a request
\* holds it ever goes back to an earlier status.
C6_StatusForward ==
    [][\A w \in WsIds :
        /\ Rank(store'[w].status) >= Rank(store[w].status)
        /\ \A p \in Procs :
            frame'[p].obj[w] # NoRec
            => Rank(frame'[p].obj[w].status) >=
                 Rank(IF frame[p].obj[w] # NoRec
                      THEN frame[p].obj[w].status ELSE store[w].status)
    ]_vars

C8_SweepCountsStopped ==
    \A p \in Procs :
        pc[p] = "sweep_returned"
        => frame[p].result =
             Cardinality({w \in frame[p].idle :
                            frame[p].obj[w].status = "stopped"})

\* C9: create_session fails with InvalidState exactly when the workspace
\* has no row or its row is not running, and then runs no command and
\* adds no session row; when the workspace is running it runs the
\* session-creation command once and, unless that command raises (the
\* error is passed on and no row is added), adds exactly one session row,
\* owned by the caller, with the requested mode.
C9_CreateSession ==
    [][\A p \in Procs :
        /\ (pc[p] = "idle" /\ frame'[p].op = "create_session")
           => LET w == frame'[p].target
              IN /\ frame'[p].err = "InvalidState"
                    <=> ~(store[w] # NoRec /\ store[w].status = "running")
                 /\ frame'[p].err = "InvalidState"
                    => /\ pc'[p] = "done"
                       /\ frame'[p].nexec = 0
                       /\ frame'[p].newsess = {}
                 /\ frame'[p].err # "InvalidState" => pc'[p] = "session_exec"
                 /\ sessions' = sessions
        /\ (pc[p] = "session_exec" /\ pc'[p] # "session_exec")
           => /\ sessions' = sessions
              /\ \/ /\ pc'[p] = "commit"
                    /\ frame'[p].err = "none"
                    /\ frame'[p].nexec = 1
                    /\ \E s \in frame'[p].newsess :
                        /\ frame'[p].newsess = {s}
                        /\ s.workspace_id = frame[p].target
                        /\ s.owner_id = frame[p].caller
                        /\ s.mode = frame[p].reqmode
                        /\ s \notin sessions
                 \/ /\ pc'[p] = "done"
                    /\ frame'[p].err = "RuntimeError"
                    /\ frame'[p].newsess = {}
        /\ (frame[p].op = "create_session" /\ pc[p] = "commit"
                /\ pc'[p] # "commit")
           => /\ pc'[p] = "done"
              /\ frame'[p].err = "none"
              /\ frame'[p].nexec = 1
              /\ sessions' = sessions \cup frame[p].newsess
              /\ Cardinality(sessions') = Cardinality(sessions) + 1
        /\ (frame[p].op = "create_session" /\ pc[p] = "done"
                /\ pc'[p] # "done")
           => sessions' = sessions
    ]_vars

\* a create_session on a running workspace has committed its row
C9_Witness ==
    \E p \in Procs :
        /\ pc[p] = "done"
        /\ frame[p].op = "create_session"
        /\ frame[p].err = "none"
        /\ frame[p].nexec = 1
        /\ frame[p].newsess # {}
        /\ frame[p].newsess \subseteq sessions

\* C9 as stated: a create_session that did not fail with InvalidState has
\* run the command once and added one row owned by the caller with the
\* requested mode.
C9_Original ==
    \A p \in Procs :
        (pc[p] = "done" /\ frame[p].op = "create_session")
        => \/ /\ frame[p].err = "InvalidState"
              /\ frame[p].nexec = 0
              /\ frame[p].newsess = {}
           \/ /\ frame[p].err = "none"
              /\ frame[p].nexec = 1
              /\ \E s \in sessions :
                    /\ frame[p].newsess = {s}
                    /\ s.owner_id = frame[p].caller
                    /\ s.mode = frame[p].reqmode

\* C10: the sessions of one workspace have distinct multiplexer-session
\* names.
C10_TmuxNamesDistinct ==
    \A s1 \in sessions, s2 \in sessions :
        (s1 # s2 /\ s1.workspace_id = s2.workspace_id)
        => s1.tmux_session # s2.tmux_session

\* the state the terminal specifications start from is one the program
\* reaches from its start (checked under SpecTerm)
ServingReached ==
    /\ store[1].status = "running"
    /\ containers[1].exists /\ containers[1].up
    /\ \A p \in Procs : pc[p] = "idle"
    /\ \E s1 \in sessions, s2 \in sessions :
        /\ sessions = {s1, s2}
        /\ s1.owner_id = "u1" /\ s1.mode = "collaborative"
        /\ s2.owner_id = "u2" /\ s2.mode = "readonly"
        /\ s1.tmux_session # s2.tmux_session

\* C11: set_mode fails with NotFound when the session is absent and with
\* PermissionDenied when the caller is not its owner, staging no change;
\* otherwise it sets the mode.  A committed session's mode changes only
\* at the commit of a set_mode by its owner, to the mode asked for, and
\* nothing else of a session ever changes.
C11_SetModeByOwner ==
    [][/\ \A p \in Procs :
            (pc[p] = "idle" /\ frame'[p].op = "set_mode")
            => LET f == frame'[p]
                   found == {s \in sessions : s.id = f.sid}
               IN /\ sessions' = sessions
                  /\ f.err = "NotFound" <=> found = {}
                  /\ f.err = "PermissionDenied"
                     <=> \E s \in found : s.owner_id # f.caller
                  /\ f.err # "none" => (pc'[p] = "done" /\ f.setmode = {})
                  /\ f.err = "none"
                     => /\ pc'[p] = "commit"
                        /\ \A s \in found :
                            s.mode # f.reqmode
                            => f.setmode = {<<f.sid, f.reqmode>>}
       /\ \A s \in sessions :
            \/ s \in sessions'
            \/ \E p \in Procs, t \in sessions' :
                /\ frame[p].op = "set_mode"
                /\ frame[p].err = "none"
                /\ pc[p] = "commit" /\ pc'[p] = "done"
                /\ frame[p].sid = s.id
                /\ frame[p].caller = s.owner_id
                /\ t = [s EXCEPT !.mode = frame[p].reqmode]
    ]_vars

\* the owner of the readonly session has committed it as collaborative
C11_Witness ==
    \E p \in Procs, s \in sessions :
        /\ pc[p] = "done"
        /\ frame[p].op = "set_mode"
        /\ frame[p].err = "none"
        /\ s.id = frame[p].sid
        /\ s.owner_id = frame[p].caller
        /\ s.mode = frame[p].reqmode
        /\ s \notin ServingSessions

\* C12: an input on a session that is readonly, typed by someone who is
\* not its owner, issues no command and raises nothing; every other
\* input (the owner's in any mode, anyone's in another mode) issues
\* exactly one send-keys command, against the session's tmux name in the
\* container of its workspace.  Nothing else issues such a command.
C12_SendInput ==
    [][\A p \in Procs :
        IF frame'[p].ninputs = frame[p].ninputs + 1
        THEN \A s \in {x \in sessions : x.id = frame[p].sid} :
                IF s.mode = "readonly" /\ s.owner_id # frame[p].caller
                THEN /\ frame'[p].cmds = frame[p].cmds
                     /\ frame'[p].err = "none"
                     /\ pc'[p] = "ws_serving"
                ELSE frame'[p].cmds =
                        Append(frame[p].cmds,
                               [container |-> s.workspace_id,
                                kind |-> "send-keys",
                                target |-> s.tmux_session])
        ELSE frame'[p].cmds \in {frame[p].cmds, <<>>}
    ]_vars

\* someone typed into a readonly session of another user: nothing was
\* issued and the connection is still served
C12_Witness ==
    \E p \in Procs, s \in sessions :
        /\ pc[p] = "ws_serving"
        /\ frame[p].ninputs >= 1
        /\ frame[p].cmds = <<>>
        /\ s.id = frame[p].sid
        /\ s.mode = "readonly"
        /\ s.owner_id # frame[p].caller

\* C13: a connection whose token fails is closed with 4001, not accepted,
\* before any row is read; an accepted connection that found no session,
\* or whose workspace is absent or not running, is closed with 4004; in
\* neither case is a snapshot sent, a poller or listener started or an
\* input routed.
C13_RejectedConnections ==
    \A p \in Procs :
        (pc[p] = "done" /\ frame[p].op = "terminal_ws")
        => LET f == frame[p]
               served == f.sessrow # {} /\ f.obj # NoRows
           IN /\ ~f.accepted
                 => (f.closed = CODE_UNAUTHORIZED /\ f.sessrow = {}
                        /\ f.obj = NoRows)
              /\ (f.accepted /\ ~served) => f.closed = CODE_NOT_FOUND
              /\ ~served
                 => /\ f.sent = <<>>
                    /\ f.poller = "none"
                    /\ ~f.subscribed
                    /\ f.ninputs = 0
                    /\ f.cmds = <<>>

\* C14: a connection that passed the token check and the validation of
\* session and workspace has sent exactly one initial snapshot, as the
\* first frame: every later frame is one forwarded from the bus.
C14_InitialSnapshotFirst ==
    \A p \in Procs :
        (frame[p].op = "terminal_ws"
            /\ pc[p] \in {"ws_subscribe", "ws_serving"})
        => /\ frame[p].sent # <<>>
           /\ frame[p].sent[1].kind = "initial"
           /\ \A i \in 2..Len(frame[p].sent) : frame[p].sent[i].kind = "bus"

\* C15: a poller publishes a capture exactly when it is its first or
\* differs from the capture before it, so that every maximal run of
\* identical captures is published once.
C15_PublishOncePerRun ==
    \A p \in Procs :
        \A i \in 1..Len(frame[p].polls) :
            frame[p].polls[i].publish
            <=> (i = 1 \/ frame[p].polls[i].output
                            # frame[p].polls[i - 1].output)

\* every endpoint of an edge is a node, as in the graphs the builder yields
WellFormed(nodes, edges) ==
    \A i \in DOMAIN edges :
        edges[i][1] \in SeqToSet(nodes) /\ edges[i][2] \in SeqToSet(nodes)

\* the ids reached from S along the edges E, S included
RECURSIVE ReachFrom(_, _)
ReachFrom(E, S) ==
    LET T == S \cup {e[2] : e \in {x \in E : x[1] \in S}}
    IN IF T = S THEN S ELSE ReachFrom(E, T)

HasCycle(E) == \E e \in E : e[1] \in ReachFrom(E, {e[2]})

IdOf(name) == CHOOSE i \in Ids : Names[i] = name

ClosedWalk(E, c) ==
    /\ Len(c) > 0
    /\ \A i \in DOMAIN c : <<IdOf(c[i]), IdOf(c[(i % Len(c)) + 1])>> \in E

Triangle(nodes, edges) ==
    /\ nodes = <<1, 2, 3>>
    /\ Len(edges) = 3
    /\ SeqToSet(edges) = {<<1, 2>>, <<2, 3>>, <<3, 1>>}

CyclesAnswered(p) ==
    pc[p] = "done" /\ frame[p].op = "detect_cycles"

\* C16: on a graph whose edges join nodes of the list, detect_cycles
\* returns the empty list exactly when the directed edge set has no cycle;
\* every cycle it reports is a closed walk (each name has an edge to the
\* next, the last to the first); for nodes A, B, C and edges A->B, B->C,
\* C->A it reports exactly one cycle, and its names are A, B and C.
C16_DetectCycles ==
    \A p \in Procs :
        (CyclesAnswered(p) /\ WellFormed(frame[p].nodes, frame[p].edges)) =>
            LET E == SeqToSet(frame[p].edges)
                cycles == frame[p].cycles
            IN /\ frame[p].err = "none"
               /\ (cycles = <<>>) <=> ~HasCycle(E)
               /\ \A i \in DOMAIN cycles : ClosedWalk(E, cycles[i])
               /\ Triangle(frame[p].nodes, frame[p].edges) =>
                      /\ Len(cycles) = 1
                      /\ Len(cycles[1]) = 3
                      /\ SeqToSet(cycles[1]) = {"A", "B", "C"}

C16_Witness ==
    \E p \in Procs :
        /\ CyclesAnswered(p)
        /\ Triangle(frame[p].nodes, frame[p].edges)
        /\ Len(frame[p].cycles) = 1

Reversed(E) == {<<e[2], e[1]>> : e \in E}

\* the ids from which the target is reached along the edges, the target
\* left out
Dependents(E, t) == ReachFrom(Reversed(E), {t}) \ {t}

ImpactAnswered(p) ==
    pc[p] = "done" /\ frame[p].op = "calculate_impact"

Chain(edges, t) ==
    SeqToSet(edges) = {<<1, 2>>, <<2, 3>>} /\ t = 3

\* C17: for every graph and target, calculate_impact reports as
\* direct_dependents the number of distinct sources of the edges entering
\* the target, as transitive_dependents the number of ids from which the
\* target is reached, the target itself left out, and as affected_nodes
\* the names of those of them that are in the node list; for edges X->Y,
\* Y->Z and target Z the direct dependents are {Y} and the transitive
\* ones {Y, X}.
C17_CalculateImpact ==
    \A p \in Procs :
        ImpactAnswered(p) =>
            LET E == SeqToSet(frame[p].edges)
                t == frame[p].node_id
                known == SeqToSet(frame[p].nodes)
                r == frame[p].impact
            IN /\ r.direct_dependents =
                      Cardinality({e[1] : e \in {x \in E : x[2] = t}})
               /\ r.transitive_dependents = Cardinality(Dependents(E, t))
               /\ r.affected_nodes =
                      {Names[v] : v \in Dependents(E, t) \cap known}
               /\ Chain(frame[p].edges, t) =>
                      /\ r.direct_dependents = 1
                      /\ r.transitive_dependents = 2
                      /\ known = Ids => r.affected_nodes = {"A", "B"}

C17_Witness ==
    \E p \in Procs :
        /\ ImpactAnswered(p)
        /\ Chain(frame[p].edges, frame[p].node_id)
        /\ frame[p].nodes = <<1, 2, 3>>
        /\ frame[p].impact.affected_nodes = {"A", "B"}

\* the ids within k hops of the ids S, the relations rel followed in
\* either direction
RECURSIVE Ball(_, _, _)
Ball(rel, S, k) ==
    IF k <= 0 THEN S
    ELSE Ball(rel,
              S \cup {r[2] : r \in {x \in rel : x[1] \in S}}
                \cup {r[1] : r \in {x \in rel : x[2] \in S}},
              k - 1)

Traversed(p) ==
    pc[p] = "done" /\ frame[p].op = "traverse_graph"

Started(p) ==
    IF frame[p].start_id \in Ids THEN {frame[p].start_id} ELSE {}

\* C18: a traversal with maximum depth d >= 0 returns exactly the nodes
\* within d hops of the start, relations of the allowed types followed in
\* either direction, and every depth it returns is between 0 and d; with
\* d = 1 and no relation from a node to itself these are the start at
\* depth 0 and its neighbours at depth 1, none of their further neighbours.
C18_BoundedTraversal ==
    \A p \in Procs :
        (Traversed(p) /\ frame[p].max_depth >= 0) =>
            LET rel == RelationFilter(frame[p].relations,
                                      frame[p].relation_types)
                d == frame[p].max_depth
            IN /\ {row[1] : row \in frame[p].rows} = Ball(rel, Started(p), d)
               /\ \A row \in frame[p].rows : row[2] \in 0..d
               /\ (d = 1 /\ \A r \in rel : r[1] # r[2]) =>
                     frame[p].rows =
                        {<<n, 0>> : n \in Started(p)} \cup
                        {<<n, 1>> : n \in Ball(rel, Started(p), 1)
                                            \ Started(p)}

C18_Witness ==
    \E p \in Procs :
        /\ Traversed(p)
        /\ frame[p].max_depth = 1 /\ frame[p].start_id = 1
        /\ frame[p].relation_types = {}
        /\ frame[p].relations = {<<1, 2, "uses">>, <<3, 2, "calls">>}
        /\ frame[p].rows = {<<1, 0>>, <<2, 1>>}

\* the least number of hops from the ids S to n, for n within MaxDepth + 1
\* hops
Hops(rel, S, n) ==
    CHOOSE k \in 0..(MaxDepth + 1) :
        /\ n \in Ball(rel, S, k)
        /\ \A j \in 0..(k - 1) : n \notin Ball(rel, S, j)

\* C19: a traversal returns each node it visited exactly once, with the
\* least number of hops from the start as its depth, and only relations
\* whose source and target are both among the nodes returned.
C19_EachNodeOnce ==
    \A p \in Procs :
        Traversed(p) =>
            LET rel == RelationFilter(frame[p].relations,
                                      frame[p].relation_types)
                node_ids == {row[1] : row \in frame[p].rows}
            IN /\ \A a \in frame[p].rows, b \in frame[p].rows :
                      a[1] = b[1] => a = b
               /\ \A row \in frame[p].rows :
                      row[2] = Hops(rel, Started(p), row[1])
               /\ \A r \in frame[p].gedges :
                      r[1] \in node_ids /\ r[2] \in node_ids

\* C20: on a graph with an edge whose endpoint is not in the node list,
\* detect_cycles, calculate_impact and _calc_max_depth raise nothing, and
\* no name of an unknown id is in what they return.
C20_DanglingTolerated ==
    \A p \in Procs :
        (/\ pc[p] = "done"
         /\ frame[p].op \in {"detect_cycles", "calculate_impact",
                              "_calc_max_depth"}
         /\ ~WellFormed(frame[p].nodes, frame[p].edges)) =>
            LET known == {Names[n] : n \in SeqToSet(frame[p].nodes)}
            IN /\ frame[p].err = "none"
               /\ \A i \in DOMAIN frame[p].cycles :
                      SeqToSet(frame[p].cycles[i]) \subseteq known
               /\ frame[p].impact.affected_nodes \subseteq known

\* C21: no connection receives two consecutive frames with the same
\* snapshot: nothing is published on the channel of a session twice in a
\* row, whether one connection views the session or several, and the
\* first poll after the initial snapshot included.
C21_NoDuplicateFrames ==
    \A p \in Procs :
        \A i \in 1..(Len(frame[p].sent) - 1) :
            frame[p].sent[i].data # frame[p].sent[i + 1].data

\* C22: when the handler of a connection has finished, its poller and its
\* bus listener run no more, and while the socket is open a poller that
\* ended on an error has not left the listener running.
C22_BothCancelled ==
    \A p \in Procs :
        frame[p].op = "terminal_ws" =>
            /\ pc[p] = "done" =>
                    frame[p].poller # "polling" /\ ~frame[p].subscribed
            /\ (pc[p] = "ws_serving" /\ frame[p].poller = "ended") =>
                    ~frame[p].subscribed

\* C23: each text received on a connection is decided on the mode and
\* owner the session row holds when the text is handled, not on the row
\* read when the connection was made: it issues no command exactly when
\* the stored mode is readonly and the sender is not the stored owner, so
\* after readonly is stored a non-owner's texts issue nothing, and after
\* the mode is set back they issue a command again.
C23_RoutedOnStoredMode ==
    [][\A p \in Procs :
        frame'[p].ninputs = frame[p].ninputs + 1 =>
            \A s \in {x \in sessions : x.id = frame[p].sid} :
                (frame'[p].cmds = frame[p].cmds)
                <=> (s.mode = "readonly" /\ s.owner_id # frame[p].caller)
    ]_vars

\* a non-owner connected while the session was collaborative; readonly
\* was stored since, and the text typed after that issued nothing
C23_Witness ==
    \E p \in Procs, s \in sessions :
        /\ pc[p] = "ws_serving"
        /\ s.id = frame[p].sid
        /\ s.owner_id # frame[p].caller
        /\ s.mode = "readonly"
        /\ \A r \in frame[p].sessrow : r.mode = "collaborative"
        /\ frame[p].ninputs = 1
        /\ frame[p].cmds = <<>>

\* the captures a poller published, in the order of its polls
PublishedBy(p) ==
    LET pub == SelectSeq(frame[p].polls, LAMBDA x : x.publish)
    IN [i \in DOMAIN pub |-> pub[i].output]

\* the frames a connection forwarded from the bus, in the order sent
BusFrames(p) ==
    LET bus == SelectSeq(frame[p].sent, LAMBDA x : x.kind = "bus")
    IN [i \in DOMAIN bus |-> bus[i].data]

IsSegment(s, t) ==
    \E i \in 0..Len(t) :
        i + Len(s) <= Len(t) /\ s = SubSeq(t, i + 1, i + Len(s))

\* C24: on a connection, the frames sent after the initial one, followed
\* by those still waiting at its listener, are captures its poller
\* published, in the order of its polls and none left out between them;
\* the commands issued are for the texts received in the order received,
\* at most one for each text, and a text is handled only when the one
\* before it was.
C24_OrderKept ==
    /\ IsSegment(BusFrames("p1") \o frame["p1"].inbox, PublishedBy("p1"))
    /\ \A i \in 2..Len(frame["p1"].sent) : frame["p1"].sent[i].kind = "bus"
    /\ Len(frame["p1"].applied) = Len(frame["p1"].cmds)
    /\ \A i \in DOMAIN frame["p1"].applied :
            /\ frame["p1"].applied[i] \in 1..frame["p1"].ninputs
            /\ \A j \in 1..(i - 1) :
                    frame["p1"].applied[j] < frame["p1"].applied[i]

\* two captures were published and forwarded in that order after the
\* initial frame, and two texts were received and applied in that order
C24_Witness ==
    /\ Len(frame["p1"].sent) = 3
    /\ frame["p1"].sent[1].kind = "initial"
    /\ BusFrames("p1") = PublishedBy("p1")
    /\ frame["p1"].applied = <<1, 2>>

Built(p) ==
    pc[p] = "done" /\ frame[p].op = "build_dependency_graph"

\* the entities of type component whose name is, up to case, the name of
\* a component
Matchable(comps, entities) ==
    {e \in DOMAIN entities :
        /\ entities[e][2] = "component"
        /\ \E i \in DOMAIN comps : Lower(comps[i]) = Lower(entities[e][1])}

\* C25: every edge the builder returns has its source and its target
\* among the nodes of the same result; the edges are exactly those of the
\* relations whose source entity and target entity are both of type
\* component and matched to a node of their name, so an entity without a
\* matching node gives no edge.
C25_EdgesWithinNodes ==
    \A p \in Procs :
        Built(p) =>
            LET f == frame[p]
                ok == Matchable(f.comps, f.entities)
                comp == [e \in {m[1] : m \in f.matched} |->
                            (CHOOSE m \in f.matched : m[1] = e)[2]]
            IN /\ \A e \in f.built :
                    e[1] \in SeqToSet(f.nodes) /\ e[2] \in SeqToSet(f.nodes)
               /\ DOMAIN comp = ok
               /\ \A e \in ok :
                    Lower(f.comps[comp[e]]) = Lower(f.entities[e][1])
               /\ f.built =
                    {<<comp[r[1]], comp[r[2]], r[3]>> :
                        r \in {x \in f.relations :
                                  x[1] \in ok /\ x[2] \in ok}}

\* a relation between two matched entities gave an edge, and one with an
\* unmatched end gave none
C25_Witness ==
    \E p \in Procs :
        /\ Built(p)
        /\ frame[p].comps = <<"Api", "Db">>
        /\ frame[p].entities = <<<<"api", "component">>, <<"db", "concept">>>>
        /\ frame[p].relations = {<<1, 1, "uses">>, <<1, 2, "calls">>}
        /\ frame[p].built = {<<1, 1, "uses">>}

\* C26: each entity of type component is mapped to a node of its name,
\* case ignored, and when several components have that name up to case,
\* to the first of them in load order.
C26_FirstMatchWins ==
    \A p \in Procs :
        Built(p) =>
            \A m \in frame[p].matched :
                /\ Lower(frame[p].comps[m[2]])
                        = Lower(frame[p].entities[m[1]][1])
                /\ \A i \in 1..(m[2] - 1) :
                        Lower(frame[p].comps[i])
                            # Lower(frame[p].entities[m[1]][1])

\* C27: once stop_workspace has returned for a workspace and the request
\* is over, port allocation counts the port of that workspace no more on
\* its account: its record is not starting or running and its container
\* publishes no port, also when the runtime failed to stop or delete the
\* container.
C27_PortReleased ==
    \A p \in Procs :
        (pc[p] = "done" /\ frame[p].op = "stop_workspace"
            /\ frame[p].err = "none") =>
            LET w == frame[p].target
            IN /\ store[w].status \notin UsedStatuses
               /\ ~(containers[w].exists /\ containers[w].up)

\* no create_workspace or stop_workspace on the workspace is under way
Settled(w) ==
    \A p \in Procs :
        (frame[p].op \in {"create_workspace", "stop_workspace"}
            /\ frame[p].target = w) => pc[p] \in {"idle", "done"}

\* C28: with a container runtime that does not fail, whenever no create
\* or stop of a workspace is under way, a record that is stopped has no
\* container identifier and the runtime has no container of that
\* workspace, in every interleaving of stops and creates.
C28_StoppedMeansGone ==
    \A w \in WsIds :
        (Settled(w) /\ store[w].status = "stopped") =>
            /\ store[w].container_id = "None"
            /\ ~containers[w].exists

\* a workspace was started and then stopped: its record is stopped and
\* its container is gone
C28_Witness ==
    \E p \in Procs :
        /\ pc[p] = "done" /\ frame[p].op = "stop_workspace"
        /\ frame[p].err = "none"
        /\ Settled(frame[p].target)
        /\ store[frame[p].target].status = "stopped"
        /\ ~containers[frame[p].target].exists

\* C29: every direct dependent calculate_impact counts is among the
\* transitive dependents it counts, on every graph (self-loops and
\* repeated edges included) and target: direct_dependents is at most
\* transitive_dependents.
C29_DirectWithinTransitive ==
    \A p \in Procs :
        ImpactAnswered(p) =>
            frame[p].impact.direct_dependents
                <= frame[p].impact.transitive_dependents

Max(S) == CHOOSE x \in S : \A y \in S : y <= x

\* the ids within k steps of the ids S along the edges E
RECURSIVE OutBall(_, _, _)
OutBall(E, S, k) ==
    IF k <= 0 THEN S
    ELSE OutBall(E, S \cup {e[2] : e \in {x \in E : x[1] \in S}}, k - 1)

\* the length of a shortest path from u to v, v being reached from u
Distance(E, u, v) ==
    CHOOSE k \in 0..Cardinality(Ids) :
        v \in OutBall(E, {u}, k) /\ \A j \in 0..(k - 1) : v \notin OutBall(E, {u}, j)

\* the length of a longest path from u that repeats no id and avoids seen
RECURSIVE LongestFrom(_, _, _)
LongestFrom(E, u, seen) ==
    Max({0} \cup {1 + LongestFrom(E, e[2], seen \cup {e[2]}) :
                    e \in {x \in E : x[1] = u /\ x[2] \notin seen}})

DepthAnswered(p) ==
    pc[p] = "done" /\ frame[p].op = "_calc_max_depth"

\* C30: _calc_max_depth ends on every graph of the bounds, cyclic or not;
\* it is 0 when there are no edges; it is at least the length of the
\* shortest path from any node to any id reached from it and at most the
\* length of the longest path from a node that repeats no id, hence at
\* most the number of nodes less one when every edge joins nodes.
C30_MaxDepth ==
    \A p \in Procs :
        DepthAnswered(p) =>
            LET E == SeqToSet(frame[p].edges)
                roots == SeqToSet(frame[p].nodes)
                d == frame[p].max_depth
            IN /\ frame[p].edges = <<>> => d = 0
               /\ \A u \in roots : \A v \in ReachFrom(E, {u}) :
                        d >= Distance(E, u, v)
               /\ d <= Max({0} \cup {LongestFrom(E, u, {u}) : u \in roots})
               /\ (WellFormed(frame[p].nodes, frame[p].edges)
                        /\ frame[p].nodes # <<>>)
                    => d <= Len(frame[p].nodes) - 1

\* the statistic of a cycle through three nodes is 2
C30_Witness ==
    \E p \in Procs :
        /\ DepthAnswered(p)
        /\ Triangle(frame[p].nodes, frame[p].edges)
        /\ frame[p].max_depth = 2
====
